---- MODULE Spec2Model ----
(***************************************************************************)
(* Model of the metric ingestion pipeline of crypto-dashboard-app          *)
(* (api/src/metric/metric.service.ts and metric.controller.ts).            *)
(*                                                                         *)
(* A cron trigger starts handleCron; a run suspends at the provider call   *)
(* (http.get) and at the store insert (prisma.metric.create).  The store   *)
(* is the Metric table; GET /metrics reads it through getLatestMetrics.    *)
(*                                                                         *)
(* JavaScript numbers are modelled symbolically:                           *)
(*   provider quantities: Pow10(e) = 10^e, Zero, Neg (some number < 0);    *)
(*   computed numbers:    Fin(v) with v in millionths, NaN, NegInf.        *)
(*   persisted scores:    Score(c) with c in hundredths, NaN, NegInf.      *)
(***************************************************************************)
EXTENDS Integers, Sequences, FiniteSets, TLC

VARIABLES
    runs,      \* per invocation slot of handleCron: position and locals
    store,     \* rows of the Metric table, in insertion order
    now,       \* the store's clock (DateTime @default(now()))
    triggers,  \* number of cron ticks so far
    reply,     \* the answer of GET /metrics, when the latest step was a query
    config,    \* COINGECKO_API_URL and PROJECT_IDS as the ConfigService gives them
    service,   \* "up" once MetricService is constructed, "failed" if it threw
    scorer,    \* calculateDeaiScore taken alone: its arguments and results
    dash       \* the Dashboard component: its React state and its fetches

vars == <<runs, store, now, triggers, reply, config, service, scorer, dash>>

----------------------------------------------------------------------------
(* Bounds of the model *)

MaxRuns == 2        \* invocations of handleCron that may overlap
MaxTriggers == 3    \* cron ticks explored
MaxResp == 2        \* elements in one provider response
MaxLimit == 3       \* largest limit a query asks for
MaxExp == 34        \* provider quantities range over 10^-MaxExp .. 10^MaxExp
MaxStep == 2        \* largest increase of a quantity, in powers of ten

Slots == 1..MaxRuns

----------------------------------------------------------------------------
(* JavaScript numbers *)

Pow10(e) == [k |-> "pos", e |-> e]
Zero == [k |-> "zero"]
Neg == [k |-> "neg"]

Fin(v) == [k |-> "fin", v |-> v]
NaN == [k |-> "nan"]
NegInf == [k |-> "ninf"]

\* ln(10) in millionths
LN10 == 2302585

\* n as a computed number
Num(n) == Fin(n * 1000000)

\* Math.log: ln of a positive number, -Infinity at 0, NaN below 0
MathLog(x) ==
    CASE x.k = "pos" -> Fin(x.e * LN10)
      [] x.k = "zero" -> NegInf
      [] x.k = "neg" -> NaN

\* a / n for a positive integer constant n
DivBy(a, n) ==
    IF a.k = "fin"
    THEN Fin(IF a.v >= 0 THEN a.v \div n ELSE -((-a.v) \div n))
    ELSE a

\* a * n for a positive integer constant n
MulBy(a, n) == IF a.k = "fin" THEN Fin(a.v * n) ELSE a

\* a + b: NaN is absorbing, then -Infinity
Plus(a, b) ==
    CASE a.k = "nan" \/ b.k = "nan" -> NaN
      [] a.k = "ninf" \/ b.k = "ninf" -> NegInf
      [] OTHER -> Fin(a.v + b.v)

\* variant: the larger of the two is returned
MathMax(a, b) ==
    CASE a.k = "nan" \/ b.k = "nan" -> NaN
      [] a.k = "ninf" -> b
      [] b.k = "ninf" -> a
      [] OTHER -> Fin(IF a.v >= b.v THEN a.v ELSE b.v)

\* Math.min(a, b): NaN if either is NaN
MathMin(a, b) ==
    CASE a.k = "nan" \/ b.k = "nan" -> NaN
      [] a.k = "ninf" \/ b.k = "ninf" -> NegInf
      [] OTHER -> Fin(IF a.v <= b.v THEN a.v ELSE b.v)

Score(c) == [k |-> "fin", c |-> c]

\* parseFloat(x.toFixed(2)): round half away from zero to hundredths;
\* "NaN" and "-Infinity" parse back to NaN and -Infinity
ToFixed2(a) ==
    IF a.k = "fin"
    THEN Score(IF a.v >= 0
               THEN (a.v + 5000) \div 10000
               ELSE -((-a.v + 5000) \div 10000))
    ELSE a

----------------------------------------------------------------------------
(* Configuration and the provider's data *)

\* PROJECT_IDS of the deployment (.env), the asset tracked
PROJECT_IDS == "ethereum"

\* the provider URL of the deployment (.env)
API_URL == "https://api.coingecko.com/api/v3/coins/markets"

\* what the ConfigService may hold: each key set, or missing ("" stands for
\* undefined and for the empty string, both falsy)
Configs == [apiUrl : {"", API_URL}, projectIds : {"", PROJECT_IDS}]

\* variant: the constructor gives up only when both keys are missing
ConfigMissingBoth(cfg) == cfg.apiUrl = "" /\ cfg.projectIds = ""

\* the guard of the constructor: !apiUrl || !projectIds
ConfigMissing(cfg) == cfg.apiUrl = "" \/ cfg.projectIds = ""

\* the constructor: throws on a missing key, else keeps both values
Construct(cfg) == IF ConfigMissing(cfg) THEN "failed" ELSE "up"

\* one CoinGeckoData element of the response array
Coin(id, symbol, cap, vol) ==
    [t |-> "obj", id |-> id, symbol |-> symbol, current_price |-> Pow10(3),
     market_cap |-> cap, total_volume |-> vol]

EthGood == Coin("ethereum", "eth", Pow10(9), Pow10(8))
EthTiny == Coin("ethereum", "eth", Pow10(-80), Pow10(-80))
EthZero == Coin("ethereum", "eth", Zero, Pow10(8))
EthNeg == Coin("ethereum", "eth", Pow10(9), Neg)
Btc == Coin("bitcoin", "btc", Pow10(12), Pow10(10))
\* another coin whose ticker happens to be the configured value
Alias == Coin("ethereum-wormhole", "ethereum", Pow10(7), Pow10(6))
\* a JSON null where an element is expected
NullElem == [t |-> "null"]

Elems == {EthGood, EthTiny, EthZero, EthNeg, Btc, Alias, NullElem}

\* the provider lists a coin at most once: the arrays of at most MaxResp
\* elements in which no id (and not null) occurs twice
Key(d) == IF d.t = "null" THEN "" ELSE d.id
Arrays ==
    UNION {{a \in [1..n -> Elems] :
              \A i, j \in 1..n : i # j => Key(a[i]) # Key(a[j])} : n \in 0..MaxResp}

\* a response body: null / empty text, a JSON object, or a JSON array
NullBody == [t |-> "null"]
ObjectBody == [t |-> "object"]
ArrayBody(a) == [t |-> "array", items |-> a]
Bodies == {NullBody, ObjectBody} \cup {ArrayBody(a) : a \in Arrays}

\* what http.get settles with: a rejection (transport error or non-2xx
\* status) or a 2xx response carrying a body
Failure == [ok |-> FALSE]
Success(b) == [ok |-> TRUE, data |-> b]
Responses == {Failure} \cup {Success(b) : b \in Bodies}

----------------------------------------------------------------------------
(* MetricService: the pure parts *)

\* variant: the catch answers with a default record instead of null
fetchCoinGeckoDataDefault(resp) ==
    IF resp.ok THEN resp.data ELSE [t |-> "array", items |-> <<EthGood>>]

\* fetchCoinGeckoData: the body on success, null when http.get rejects
fetchCoinGeckoData(resp) == IF resp.ok THEN resp.data ELSE NullBody

\* variant: the match is made on the ticker
MatchesSymbol(d) == d.symbol = PROJECT_IDS

\* the predicate of rawData.find
MatchesAsset(d) == d.id = PROJECT_IDS

\* variant: the first element of the array is taken, whatever its id
FirstElement(items, i) ==
    IF i > Len(items) THEN [t |-> "undefined"]
    ELSE IF items[i].t = "null" THEN [t |-> "throw"]
    ELSE [t |-> "found", d |-> items[i]]

\* rawData.find((d) => d.id === PROJECT_IDS): the first match, undefined,
\* or a TypeError when the callback reads .id of null
RECURSIVE FindFrom(_, _)
FindFrom(items, i) ==
    IF i > Len(items) THEN [t |-> "undefined"]
    ELSE IF items[i].t = "null" THEN [t |-> "throw"]
    ELSE IF MatchesAsset(items[i]) THEN [t |-> "found", d |-> items[i]]
    ELSE FindFrom(items, i + 1)

\* variant: the volume factor counts against the score
calculateDeaiScoreRatio(data) ==
    LET marketFactor == DivBy(MathLog(data.market_cap), 10)
        volumeFactor == DivBy(MathLog(data.total_volume), 10)
        score == MathMin(Num(100),
                         Plus(Num(70),
                              MulBy(Plus(marketFactor, MulBy(volumeFactor, -1)), 2)))
    IN  ToFixed2(score)

calculateDeaiScore(data) ==
    LET marketFactor == DivBy(MathLog(data.market_cap), 10)
        volumeFactor == DivBy(MathLog(data.total_volume), 10)
        score == MathMin(Num(100),
                         Plus(Num(70), MulBy(Plus(marketFactor, volumeFactor), 2)))
    IN  ToFixed2(score)

\* String.prototype.toUpperCase on the tickers of the model
ToUpperCase(str) ==
    CASE str = "eth" -> "ETH"
      [] str = "btc" -> "BTC"
      [] str = "ethereum" -> "ETHEREUM"
      [] OTHER -> str

\* variant: the ticker is stored in upper case, as an earlier revision of
\* the service did
MetricOfUpper(ethData) ==
    [symbol |-> ToUpperCase(ethData.symbol),
     priceUSD |-> ethData.current_price,
     marketCapUSD |-> ethData.market_cap,
     volume24hUSD |-> ethData.total_volume,
     deaiScore |-> calculateDeaiScore(ethData)]

\* variant: market_cap and total_volume change places in the record
MetricOfSwapped(ethData) ==
    [symbol |-> ethData.symbol,
     priceUSD |-> ethData.current_price,
     marketCapUSD |-> ethData.total_volume,
     volume24hUSD |-> ethData.market_cap,
     deaiScore |-> calculateDeaiScore(ethData)]

\* the IMetric built from the selected element
MetricOf(ethData) ==
    [symbol |-> ethData.symbol,
     priceUSD |-> ethData.current_price,
     marketCapUSD |-> ethData.market_cap,
     volume24hUSD |-> ethData.total_volume,
     deaiScore |-> calculateDeaiScore(ethData)]

\* variant: the row is written without its score, to be completed later
saveDataPartial(data, id, createdAt) ==
    [id |-> id,
     symbol |-> data.symbol,
     source |-> "CoinGecko",
     priceUSD |-> data.priceUSD,
     marketCapUSD |-> data.marketCapUSD,
     volume24hUSD |-> data.volume24hUSD,
     createdAt |-> createdAt]

\* variant: the row carries a timestamp of the service, fixed at startup
saveDataOwnClock(data, id, createdAt) ==
    [id |-> id,
     symbol |-> data.symbol,
     source |-> "CoinGecko",
     priceUSD |-> data.priceUSD,
     marketCapUSD |-> data.marketCapUSD,
     volume24hUSD |-> data.volume24hUSD,
     deaiScore |-> data.deaiScore,
     createdAt |-> 0]

\* the row prisma.metric.create writes for saveData(data)
saveData(data, id, createdAt) ==
    [id |-> id,
     symbol |-> data.symbol,
     source |-> "CoinGecko",
     priceUSD |-> data.priceUSD,
     marketCapUSD |-> data.marketCapUSD,
     volume24hUSD |-> data.volume24hUSD,
     deaiScore |-> data.deaiScore,
     createdAt |-> createdAt]

----------------------------------------------------------------------------
(* MetricService: one invocation of handleCron *)

None == [t |-> "none"]

\* a slot before its first trigger.  fetches, creates and inserted count the
\* calls of http.get, of prisma.metric.create and the rows written by the
\* invocation; fetched, hasAsset and offered record what the provider
\* answered (offered: the elements with the configured id, kept while the
\* invocation is suspended).
\* ethData and metricData are the locals of fetchAndSaveMetrics, live while
\* the invocation is suspended in saveData.
\* grown tells, while the invocation runs, whether the table has gained a
\* row since the invocation started.
IdleRun ==
    [pc |-> "idle", fetches |-> 0, creates |-> 0, inserted |-> 0,
     fetched |-> "none", hasAsset |-> FALSE, offered |-> {},
     saveFailed |-> FALSE,
     ethData |-> None, metricData |-> None,
     grown |-> FALSE]

InFlight(run) == run.pc \in {"fetching", "saving"}

\* the body is an array holding an element with the configured id
HasAsset(resp) ==
    /\ resp.ok
    /\ resp.data.t = "array"
    /\ \E i \in 1..Len(resp.data.items) :
          /\ resp.data.items[i].t = "obj"
          /\ resp.data.items[i].id = PROJECT_IDS

\* the elements of the body that carry the configured id
Offered(resp) ==
    IF resp.ok /\ resp.data.t = "array"
    THEN {resp.data.items[i] : i \in
            {j \in 1..Len(resp.data.items) :
                /\ resp.data.items[j].t = "obj"
                /\ resp.data.items[j].id = PROJECT_IDS}}
    ELSE {}

\* variant: once an invocation has ended without writing, later ticks do
\* nothing
StartRunLatched ==
    IF \E q \in Slots : runs[q].pc \in {"done", "rejected"} /\ runs[q].inserted = 0
    THEN [IdleRun EXCEPT !.pc = "done"]
    ELSE [IdleRun EXCEPT !.pc = "fetching", !.fetches = 1]

\* handleCron up to its first suspension: log, fetchAndSaveMetrics,
\* fetchCoinGeckoData, http.get
StartRun == [IdleRun EXCEPT !.pc = "fetching", !.fetches = 1]

\* the invocation returns or rejects
Close(run) == [run EXCEPT !.grown = FALSE]

\* a row was written by another invocation
OnOtherSaved(run) ==
    IF InFlight(run) THEN [run EXCEPT !.grown = TRUE] ELSE run

\* the if (ethData) branch up to the await of saveData
OnFound(run, ethData) ==
    [run EXCEPT !.pc = "saving", !.ethData = ethData,
                !.metricData = MetricOf(ethData), !.creates = @ + 1]

\* the else branch: warn and return
OnNotFound(run) == Close([run EXCEPT !.pc = "done", !.offered = {}])

\* the guard of the early return: !rawData || rawData.length === 0
IsEmpty(rawData) ==
    \/ rawData.t = "null"
    \/ rawData.t = "array" /\ Len(rawData.items) = 0

\* variant: an empty or failed fetch is tried once more before giving up
OnEmptyRetry(run) ==
    IF run.fetches < 2
    THEN [run EXCEPT !.fetches = @ + 1]
    ELSE Close([run EXCEPT !.pc = "done"])

\* the early return: log the error and return
OnEmpty(run) == Close([run EXCEPT !.pc = "done"])

\* fetchAndSaveMetrics from the settlement of http.get to its next
\* suspension or its end.  A TypeError (find of a non-array, .id of null)
\* is caught nowhere and rejects handleCron.
AfterFetch(run, resp) ==
    LET rawData == fetchCoinGeckoData(resp)
        seen == [run EXCEPT !.fetched = IF resp.ok THEN "ok" ELSE "failed",
                            !.hasAsset = HasAsset(resp),
                            !.offered = Offered(resp)]
    IN  IF IsEmpty(rawData) THEN OnEmpty(seen)
        ELSE IF rawData.t # "array"
        THEN Close([seen EXCEPT !.pc = "rejected"])
        ELSE LET f == FindFrom(rawData.items, 1)
             IN  CASE f.t = "throw" ->
                        Close([seen EXCEPT !.pc = "rejected", !.offered = {}])
                   [] f.t = "found" -> OnFound(seen, f.d)
                   [] OTHER -> OnNotFound(seen)

\* saveData resolved: log and return
OnSaved(run) ==
    Close([run EXCEPT !.pc = "done", !.inserted = @ + 1,
                      !.ethData = None, !.metricData = None, !.offered = {}])

\* variant: saveData is awaited outside any try
OnSaveErrorUncaught(run) ==
    Close([run EXCEPT !.pc = "rejected", !.saveFailed = TRUE,
                      !.ethData = None, !.metricData = None, !.offered = {}])

\* saveData rejected: the catch logs and the method returns
OnSaveError(run) ==
    Close([run EXCEPT !.pc = "done", !.saveFailed = TRUE,
                      !.ethData = None, !.metricData = None, !.offered = {}])

----------------------------------------------------------------------------
(* Query side: GET /metrics *)

Absent == [t |-> "absent"]
Text == [t |-> "text"]
IntParam(n) == [t |-> "int", v |-> n]
LimitParams == {Absent, Text} \cup {IntParam(n) : n \in (-1)..MaxLimit}

DefaultLimit == 10

Reverse(s) == [i \in 1..Len(s) |-> s[Len(s) + 1 - i]]

Min(a, b) == IF a <= b THEN a ELSE b

\* the orders in which ORDER BY createdAt DESC may list the rows: rows of
\* equal createdAt come in any order
DescOrders(rows) ==
    LET n == Len(rows)
        perms == {f \in [1..n -> 1..n] : \A i, j \in 1..n : i # j => f[i] # f[j]}
    IN  {[i \in 1..n |-> rows[f[i]]] : f \in
            {g \in perms : \A i \in 1..n, j \in 1..n :
                i < j => rows[g[i]].createdAt >= rows[g[j]].createdAt}}

\* variant: nothing unless n rows exist
TakeAllOrNothing(s, n) == IF n >= 0 /\ n <= Len(s) THEN SubSeq(s, 1, n) ELSE <<>>

\* take: n of findMany: the first n of the list, the last -n when n < 0
Take(s, n) ==
    IF n >= 0 THEN SubSeq(s, 1, Min(n, Len(s)))
    ELSE SubSeq(s, Len(s) - Min(-n, Len(s)) + 1, Len(s))

\* variant: the rows are returned as findMany lists them, newest first
getLatestMetricsNewestFirst(rows, limit) ==
    {Take(o, limit) : o \in DescOrders(rows)}

\* what getLatestMetrics(limit) may return over the rows
getLatestMetrics(rows, limit) ==
    {Reverse(Take(o, limit)) : o \in DescOrders(rows)}

\* reads counts the calls of findMany made for the answer; reached tells
\* whether findMany got to the store
NoReply ==
    [status |-> 0, param |-> Absent, limit |-> 0, body |-> <<>>,
     reads |-> 0, reached |-> FALSE]

\* ParseIntPipe refuses what is not an integer: 400 Bad Request, before the
\* handler runs
BadRequest(param) == [NoReply EXCEPT !.status = 400, !.param = param]

\* variant: a failed read is answered as if the store were empty
QueryFailedAsEmpty(param, limit) ==
    [NoReply EXCEPT !.status = 200, !.param = param, !.limit = limit, !.reads = 1]

\* findMany rejects: getLatestMetrics and getMetrics reject, the framework
\* answers 500
QueryFailed(param, limit) ==
    [NoReply EXCEPT !.status = 500, !.param = param, !.limit = limit, !.reads = 1]

\* findMany resolves: the handler returns the reversed rows, 200
QueryOk(param, limit, body) ==
    [status |-> 200, param |-> param, limit |-> limit, body |-> body,
     reads |-> 1, reached |-> TRUE]

----------------------------------------------------------------------------
(* The scorer taken alone, and the dashboard before it is mounted *)

\* no call of calculateDeaiScore is being examined
IdleScorer == [in |-> None, out |-> None]

\* the options of the limit selector and the limit the page opens with
LimitOptions == {10, 20, 50, 100}
InitialLimit == 50

\* the page is not open: the initial values of its useState hooks.
\* error is "null", "empty" (no rows came back) or "failed"; inflight holds
\* the limits of the fetches not yet settled; dataLimit is the limit of
\* the request whose response is in data (0: none) and newestAtQuery the
\* greatest createdAt of the table when that request was answered (0: the
\* table was empty).
NoDashboard ==
    [mounted |-> FALSE, data |-> <<>>, limit |-> InitialLimit,
     loading |-> TRUE, error |-> "null", inflight |-> {},
     dataLimit |-> 0, newestAtQuery |-> 0]

----------------------------------------------------------------------------
(* The state machine *)

\* the process after bootstrap: MetricService constructed from the
\* configuration, or the constructor has thrown and nothing was registered
Init ==
    /\ runs = [r \in Slots |-> IdleRun]
    /\ store = <<>>
    /\ now = 0
    /\ triggers = 0
    /\ reply = NoReply
    /\ config \in Configs
    /\ service = Construct(config)
    /\ scorer = IdleScorer
    /\ dash = NoDashboard

\* the cron tick: a new invocation of handleCron, whether or not an
\* earlier one is still suspended.  The invocation takes the lowest slot
\* not in flight (slots are interchangeable); ticks are 30 s apart, so the
\* clock has advanced.
Trigger(r) ==
    /\ service = "up"
    /\ triggers < MaxTriggers
    /\ ~InFlight(runs[r])
    /\ \A q \in Slots : q < r => InFlight(runs[q])
    /\ runs' = [runs EXCEPT ![r] = StartRun]
    /\ triggers' = triggers + 1
    /\ now' = now + 1
    /\ reply' = NoReply
    /\ UNCHANGED <<store, config, service, scorer, dash>>

\* http.get settles
FetchReturn(r, resp) ==
    /\ runs[r].pc = "fetching"
    /\ runs' = [runs EXCEPT ![r] = AfterFetch(@, resp)]
    /\ reply' = NoReply
    /\ UNCHANGED <<store, now, triggers, config, service, scorer, dash>>

\* createdAt is the store's time at the write: the time of the last event,
\* or a later one.  Only the order of the timestamps matters, so a later
\* time is drawn only when a row already carries the time of the last
\* event: the write then either ties with that row or comes after it.
WriteTimes(clock, rows) ==
    {clock} \cup
    (IF \E i \in 1..Len(rows) : rows[i].createdAt = clock THEN {clock + 1} ELSE {})

\* variant: the write replaces the newest row of the table
createOrReplace(rows, row) ==
    IF rows = <<>> THEN <<row>> ELSE [rows EXCEPT ![Len(rows)] = row]

\* prisma.metric.create: an INSERT of one row
create(rows, row) == Append(rows, row)

\* prisma.metric.create resolves: the row is in the table
SaveOk(r) ==
    /\ runs[r].pc = "saving"
    /\ \E t \in WriteTimes(now, store) :
          /\ now' = t
          /\ store' = create(store, saveData(runs[r].metricData, Len(store) + 1, now'))
    /\ runs' = [q \in Slots |->
                    IF q = r THEN OnSaved(runs[q]) ELSE OnOtherSaved(runs[q])]
    /\ reply' = NoReply
    /\ UNCHANGED <<triggers, config, service, scorer, dash>>

\* prisma.metric.create rejects: nothing was written
SaveFail(r) ==
    /\ runs[r].pc = "saving"
    /\ runs' = [runs EXCEPT ![r] = OnSaveError(@)]
    /\ reply' = NoReply
    /\ UNCHANGED <<store, now, triggers, config, service, scorer, dash>>

\* variant: the rows live in the array the query reverses in place
AfterFindManyReversed(rows, limit) == Reverse(rows)

\* the table after getLatestMetrics: findMany only reads, and reverse()
\* acts on the array findMany returned
AfterFindMany(rows, limit) == rows

\* variant: a request without limit asks for the newest row only
DefaultValuePipeOne(param) ==
    IF param.t = "absent" THEN IntParam(1) ELSE param

\* new DefaultValuePipe(10): an absent parameter becomes the default
DefaultValuePipe(param) ==
    IF param.t = "absent" THEN IntParam(DefaultLimit) ELSE param

\* GET /metrics?limit=param: DefaultValuePipe, ParseIntPipe, then
\* getLatestMetrics; dbOk tells whether findMany can reach the store
GetMetrics(param, dbOk) ==
    /\ service = "up"
    /\ LET value == DefaultValuePipe(param)
       IN  IF value.t # "int"
           THEN reply' = BadRequest(param) /\ store' = store
           ELSE IF ~dbOk
           THEN reply' = QueryFailed(param, value.v) /\ store' = store
           ELSE /\ \E body \in getLatestMetrics(store, value.v) :
                     reply' = QueryOk(param, value.v, body)
                /\ store' = AfterFindMany(store, value.v)
    /\ UNCHANGED <<runs, now, triggers, config, service, scorer, dash>>

\* The ingestion pipeline under every provider response
Next ==
    \/ \E r \in Slots : Trigger(r)
    \/ \E r \in Slots, resp \in Responses : FetchReturn(r, resp)
    \/ \E r \in Slots : SaveOk(r)
    \/ \E r \in Slots : SaveFail(r)

Spec == Init /\ [][Next]_vars

\* The ingestion pipeline with its scheduler: @Cron fires handleCron at
\* every tick.  Nothing in the service makes the provider or the store
\* answer, so their answers carry no fairness.
SpecLive == Init /\ [][Next]_vars /\ WF_vars(\E r \in Slots : Trigger(r))

\* The service with its query endpoint; the provider fails or answers with
\* the tracked coin
PlainResponses ==
    {Failure, Success(ArrayBody(<<Btc, EthGood>>))}

NextQuery ==
    \/ \E r \in Slots : Trigger(r)
    \/ \E r \in Slots, resp \in PlainResponses : FetchReturn(r, resp)
    \/ \E r \in Slots : SaveOk(r)
    \/ \E r \in Slots : SaveFail(r)
    \/ \E param \in LimitParams, dbOk \in BOOLEAN : GetMetrics(param, dbOk)

SpecQuery == Init /\ [][NextQuery]_vars

----------------------------------------------------------------------------
(* The Dashboard component *)

\* fetchData up to its await: setLoading(true), setError(null), fetch
StartFetch(d) ==
    [d EXCEPT !.loading = TRUE, !.error = "null", !.inflight = @ \cup {d.limit}]

\* variant: the selector stays on the page while data is loading
SelectAlwaysRendered(d) == d.mounted

\* the selector is rendered only by the main screen: not while loading and
\* not on the error screen
SelectRendered(d) == d.mounted /\ ~d.loading /\ d.error = "null"

\* the greatest createdAt of the rows, 0 when there is none
RECURSIVE Newest(_)
Newest(rows) ==
    IF rows = <<>> THEN 0
    ELSE LET rest == Newest(Tail(rows))
         IN  IF Head(rows).createdAt >= rest THEN Head(rows).createdAt ELSE rest

\* the record shown on the cards: the last element of data, or null
latestMetric(data) == IF Len(data) > 0 THEN data[Len(data)] ELSE None

\* the response is ok: setError on an empty result, setData, and the
\* finally block
OnResult(d, l, result, newest) ==
    [d EXCEPT !.error = IF Len(result) = 0 THEN "empty" ELSE @,
              !.data = result,
              !.loading = FALSE,
              !.inflight = @ \ {l},
              !.dataLimit = l,
              !.newestAtQuery = newest]

\* fetch rejected or the response is not ok: the catch and the finally
\* block
OnFetchError(d, l) ==
    [d EXCEPT !.error = "failed", !.loading = FALSE, !.inflight = @ \ {l}]

\* the page is opened: first render, then the effect runs fetchData
Mount ==
    /\ ~dash.mounted
    /\ dash' = StartFetch([dash EXCEPT !.mounted = TRUE])
    /\ UNCHANGED <<runs, store, now, triggers, reply, config, service, scorer>>

\* handleLimitChange: the user picks another option; the effect, which
\* depends on limit, runs fetchData again
SelectLimit(l) ==
    /\ SelectRendered(dash)
    /\ l # dash.limit
    /\ dash' = StartFetch([dash EXCEPT !.limit = l])
    /\ UNCHANGED <<runs, store, now, triggers, reply, config, service, scorer>>

\* GET /metrics?limit=l is answered 200 with the rows getLatestMetrics
\* returns
FetchOk(l) ==
    /\ l \in dash.inflight
    /\ service = "up"
    /\ \E body \in getLatestMetrics(store, l) :
          dash' = OnResult(dash, l, body, Newest(store))
    /\ UNCHANGED <<runs, store, now, triggers, reply, config, service, scorer>>

\* the request fails: no connection, or a status that is not ok
FetchFail(l) ==
    /\ l \in dash.inflight
    /\ dash' = OnFetchError(dash, l)
    /\ UNCHANGED <<runs, store, now, triggers, reply, config, service, scorer>>

\* The service with the dashboard reading from it
NextDashboard ==
    \/ \E r \in Slots : Trigger(r)
    \/ \E r \in Slots, resp \in PlainResponses : FetchReturn(r, resp)
    \/ \E r \in Slots : SaveOk(r)
    \/ \E r \in Slots : SaveFail(r)
    \/ Mount
    \/ \E l \in LimitOptions : SelectLimit(l)
    \/ \E l \in LimitOptions : FetchOk(l)
    \/ \E l \in LimitOptions : FetchFail(l)

SpecDashboard == Init /\ [][NextDashboard]_vars

\* The scorer alone.  The quantities a provider record may carry
Quantities == {Zero, Neg} \cup {Pow10(e) : e \in (-MaxExp)..MaxExp}

\* the quantities greater than q by up to MaxStep powers of ten (the
\* least positive quantity above 0, 0 above a negative number)
Greater(q) ==
    CASE q.k = "pos" -> {Pow10(q.e + d) : d \in 1..MaxStep}
      [] q.k = "zero" -> {Pow10(-MaxExp)}
      [] q.k = "neg" -> {Zero}

\* pairs of records of the tracked asset: the first carries c and v, the
\* second a greater market_cap or a greater total_volume and the other
\* quantity equal
ScorerInputs(c, v) ==
    {[lo |-> Coin(PROJECT_IDS, "eth", c, v),
      hi |-> Coin(PROJECT_IDS, "eth", c2, v)] : c2 \in Greater(c)}
    \cup
    {[lo |-> Coin(PROJECT_IDS, "eth", c, v),
      hi |-> Coin(PROJECT_IDS, "eth", c, v2)] : v2 \in Greater(v)}

InitScorer ==
    /\ runs = [r \in Slots |-> IdleRun]
    /\ store = <<>>
    /\ now = 0
    /\ triggers = 0
    /\ reply = NoReply
    /\ config = [apiUrl |-> API_URL, projectIds |-> PROJECT_IDS]
    /\ service = Construct(config)
    /\ dash = NoDashboard
    /\ \E c \in Quantities, v \in Quantities :
          \E in \in ScorerInputs(c, v) :
              scorer = [in |-> in, out |-> [lo |-> None, hi |-> None]]

\* one call of calculateDeaiScore, on the record of the given side
Calculate(side) ==
    /\ scorer.out[side] = None
    /\ scorer' = [scorer EXCEPT !.out[side] = calculateDeaiScore(scorer.in[side])]
    /\ UNCHANGED <<runs, store, now, triggers, reply, config, service, dash>>

NextScorer == \E side \in {"lo", "hi"} : Calculate(side)

SpecScorer == InitScorer /\ [][NextScorer]_vars

----------------------------------------------------------------------------
(* Properties of the ingestion cycle *)

Ended(run) == run.pc \in {"done", "rejected"}

\* C1: a cycle whose provider call failed (transport error or non-success
\* status) ends having asked the store for no insert and written no row.
C1_FailedFetchWritesNothing ==
    \A r \in Slots :
        runs[r].fetched = "failed" =>
            /\ runs[r].pc = "done"
            /\ runs[r].creates = 0
            /\ runs[r].inserted = 0

C1_Witness ==
    \E r \in Slots : runs[r].fetched = "failed" /\ runs[r].pc = "done" /\ Len(store) > 0

\* C2: at most one invocation of handleCron is in flight (suspended in its
\* fetch or in its insert) at any time.
C2_AtMostOneInFlight ==
    Cardinality({r \in Slots : InFlight(runs[r])}) <= 1

\* C3: no invocation of handleCron ends with a rejected promise.
C3_NeverRejects ==
    \A r \in Slots : runs[r].pc # "rejected"

\* C4: every persisted row has a score that is a number between 0 and 100.
C4_ScoreInRange ==
    \A i \in 1..Len(store) :
        /\ store[i].deaiScore.k = "fin"
        /\ store[i].deaiScore.c >= 0
        /\ store[i].deaiScore.c <= 100 * 100

NonPositive(x) == x.k \in {"zero", "neg"}

\* C5: when the selected record has market_cap <= 0 or total_volume <= 0 the
\* scorer rejects it: no score is computed (neither NaN nor -Infinity) and
\* the store is not asked for an insert.
C5_ScorerRejectsNonPositive ==
    \A r \in Slots :
        (/\ runs[r].ethData # None
         /\ \/ NonPositive(runs[r].ethData.market_cap)
            \/ NonPositive(runs[r].ethData.total_volume))
        => /\ runs[r].metricData = None
           /\ runs[r].pc # "saving"

\* C6: when the provider call succeeds and the body holds no record with the
\* configured id (an empty array included), the cycle ends at once: it asks
\* the store for no insert and writes no row.
C6_MissingAssetWritesNothing ==
    \A r \in Slots :
        (runs[r].fetched = "ok" /\ ~runs[r].hasAsset) =>
            /\ Ended(runs[r])
            /\ runs[r].creates = 0
            /\ runs[r].inserted = 0

C6_Witness ==
    \E r \in Slots :
        runs[r].fetched = "ok" /\ ~runs[r].hasAsset /\ runs[r].pc = "done"

\* C7: an insert is asked for only when the response held an element with
\* the configured id, and the record the row is built from is that element:
\* its id is the configured identifier and the metric is computed from it.
C7_SelectedByExactId ==
    \A r \in Slots :
        /\ runs[r].creates > 0 => runs[r].hasAsset
        /\ runs[r].pc = "saving" =>
              /\ runs[r].ethData \in runs[r].offered
              /\ runs[r].ethData.id = PROJECT_IDS
              /\ runs[r].metricData = MetricOf(runs[r].ethData)

C7_Witness ==
    \E r \in Slots : runs[r].pc = "saving" /\ runs[r].ethData = EthGood

\* C8: when the insert fails, the failure is caught and the cycle ends
\* normally, having asked the store for the insert once and written no row.
C8_FailedInsertEndsCycle ==
    \A r \in Slots :
        runs[r].saveFailed =>
            /\ runs[r].pc = "done"
            /\ runs[r].creates = 1
            /\ runs[r].inserted = 0

C8_Witness ==
    \E r \in Slots : runs[r].saveFailed /\ runs[r].pc = "done"

----------------------------------------------------------------------------
(* Properties of the query *)

Rows(s) == {s[i] : i \in 1..Len(s)}

OldestFirst(s) ==
    \A i, j \in 1..Len(s) : i < j => s[i].createdAt <= s[j].createdAt

NoRepeat(s) == \A i, j \in 1..Len(s) : i # j => s[i] # s[j]

\* C9: for a positive limit n, getLatestMetrics answers with min(n, rows)
\* distinct rows of the store, none older than a row left out, oldest first.
C9_LatestOldestFirst ==
    (reply.status = 200 /\ reply.limit > 0) =>
        /\ Len(reply.body) = Min(reply.limit, Len(store))
        /\ Rows(reply.body) \subseteq Rows(store)
        /\ NoRepeat(reply.body)
        /\ OldestFirst(reply.body)
        /\ \A x \in Rows(store) \ Rows(reply.body), y \in Rows(reply.body) :
              x.createdAt <= y.createdAt

C9_Witness ==
    /\ reply.status = 200
    /\ reply.limit = 2
    /\ Len(store) = 3
    /\ reply.body[1].createdAt < reply.body[2].createdAt
    /\ \E x \in Rows(store) \ Rows(reply.body) : x.createdAt < reply.body[1].createdAt

\* C10: when the store holds fewer rows than the limit, the answer is every
\* row of the store, oldest first, and nothing else; on an empty store it is
\* the empty sequence.
C10_FewerThanLimit ==
    (reply.status = 200 /\ reply.limit > Len(store)) =>
        /\ Rows(reply.body) = Rows(store)
        /\ Len(reply.body) = Len(store)
        /\ OldestFirst(reply.body)

C10_Witness ==
    /\ reply.status = 200
    /\ Len(store) = 2
    /\ reply.limit > 2
    /\ reply.body[1].createdAt < reply.body[2].createdAt

\* C11: a request whose limit is 0, negative or not an integer is refused
\* as a caller error and findMany is not called for it.
C11_BadLimitRejected ==
    (\/ reply.param.t = "text"
     \/ reply.param.t = "int" /\ reply.param.v <= 0)
    => /\ reply.status = 400
       /\ reply.reads = 0

\* C12: a query that reaches the store succeeds (with the empty sequence
\* when the store is empty) and a query that cannot reach it is answered
\* with an error: the two answers differ in their status.
C12_EmptyIsNotFailure ==
    reply.reads > 0 =>
        /\ reply.reached => reply.status = 200
        /\ (reply.reached /\ store = <<>>) => reply.body = <<>>
        /\ ~reply.reached => reply.status = 500

C12_Witness ==
    /\ store = <<>>
    /\ reply.reads = 1
    /\ ~reply.reached
    /\ reply.status = 500

\* C13: a cycle writes at most one row, and between the start and the end
\* of a cycle the table gains at most one row: once it has gained one, no
\* further row is written while the cycle runs.
C13_AtMostOneRowPerCycle ==
    [][\A r \in Slots :
          /\ runs'[r].inserted <= 1
          /\ (InFlight(runs[r]) /\ runs[r].grown) => Len(store') = Len(store)]_vars

\* every invocation so far ran in the first slot: none started while
\* another was in flight
OneAfterTheOther == \A r \in Slots : r > 1 => runs[r].pc = "idle"

\* C14: when the cycles ran one after the other, the rows they wrote carry
\* strictly increasing createdAt.
C14_SequentialCyclesIncrease ==
    OneAfterTheOther =>
        \A i, j \in 1..Len(store) :
            i < j => store[i].createdAt < store[j].createdAt

C14_Witness ==
    /\ OneAfterTheOther
    /\ Len(store) = 2
    /\ runs[1].inserted = 1

\* C15: every step leaves the rows already in the table in place and
\* unchanged; a step only ever adds rows after them.
C15_AppendOnly ==
    [][/\ Len(store') >= Len(store)
       /\ SubSeq(store', 1, Len(store)) = store]_vars

C15_Witness ==
    /\ Len(store) >= 2
    /\ \E r \in Slots : runs[r].pc = "saving"

\* C16: every invocation fetches afresh, whatever happened before it, and
\* an invocation that found the provider and the store healthy has written
\* exactly one row.
C16_NextCycleIndependent ==
    \A r \in Slots :
        /\ runs[r].pc # "idle" => runs[r].fetches = 1
        /\ (/\ runs[r].pc = "done"
            /\ runs[r].fetched = "ok"
            /\ runs[r].hasAsset
            /\ ~runs[r].saveFailed) => runs[r].inserted = 1

\* the second of two consecutive cycles has written the only row: the
\* first one ended without writing
C16_Witness ==
    /\ OneAfterTheOther
    /\ triggers = 2
    /\ Len(store) = 1
    /\ runs[1].pc = "done"
    /\ runs[1].inserted = 1

\* C17: with the asset identifier or the provider URL missing the service
\* is not constructed: no cycle ever starts, nothing is written and no
\* query is answered.
C17_MissingConfigNeverStarts ==
    (config.apiUrl = "" \/ config.projectIds = "") =>
        /\ service = "failed"
        /\ triggers = 0
        /\ \A r \in Slots : runs[r] = IdleRun
        /\ store = <<>>
        /\ reply = NoReply

C17_Witness ==
    /\ config.apiUrl = API_URL
    /\ config.projectIds = ""
    /\ service = "failed"

\* C18: every row of the table holds its ticker in upper case.
C18_StoredUppercase ==
    \A i \in 1..Len(store) : store[i].symbol = ToUpperCase(store[i].symbol)

\* the tickers the provider gives for the tracked asset
SuppliedSymbols ==
    {d.symbol : d \in {e \in Elems : e.t = "obj" /\ e.id = PROJECT_IDS}}

\* C18 (amended): every row of the table holds the ticker exactly as the
\* provider supplied it for the tracked asset, with no change of case.
C18_StoredAsSupplied ==
    /\ \A r \in Slots :
          runs[r].pc = "saving" => runs[r].metricData.symbol = runs[r].ethData.symbol
    /\ \A i \in 1..Len(store) : store[i].symbol \in SuppliedSymbols

C18_Witness ==
    \E i \in 1..Len(store) :
        /\ store[i].symbol = "eth"
        /\ store[i].symbol # ToUpperCase(store[i].symbol)

\* C19: every cycle that has started eventually ends, by returning or by
\* rejecting.
C19_EveryCycleTerminates ==
    \A r \in Slots : InFlight(runs[r]) ~> Ended(runs[r])

\* a row with every column of an Observation
Complete(row) ==
    DOMAIN row = {"id", "symbol", "source", "priceUSD", "marketCapUSD",
                  "volume24hUSD", "deaiScore", "createdAt"}

\* C20: every row a query returns is a complete row of the table, also
\* while cycles are in flight; and a cycle that is in flight or has ended
\* without its insert has left no row: the rows number at most the cycles
\* started less those.
C20_NoPartialObservation ==
    /\ reply.status = 200 =>
          \A i \in 1..Len(reply.body) :
              /\ Complete(reply.body[i])
              /\ \E k \in 1..Len(store) : store[k] = reply.body[i]
    /\ \A i \in 1..Len(store) : Complete(store[i])
    /\ Len(store) + Cardinality({r \in Slots :
                                  \/ InFlight(runs[r])
                                  \/ Ended(runs[r]) /\ runs[r].inserted = 0})
          <= triggers

C20_Witness ==
    /\ reply.status = 200
    /\ Len(reply.body) >= 1
    /\ \E r \in Slots : runs[r].pc = "saving"
    /\ \E r \in Slots : Ended(runs[r]) /\ runs[r].inserted = 0

\* C21: a request without a limit parameter is not refused and runs with
\* limit 10: when it succeeds the answer is the min(10, rows) newest rows
\* of the store, oldest first.
C21_DefaultLimitTen ==
    (reply.param = Absent /\ reply.status # 0) =>
        /\ reply.status # 400
        /\ reply.limit = 10
        /\ reply.status = 200 =>
              /\ Len(reply.body) = Min(10, Len(store))
              /\ Rows(reply.body) \subseteq Rows(store)
              /\ NoRepeat(reply.body)
              /\ OldestFirst(reply.body)

C21_Witness ==
    /\ reply.param = Absent
    /\ reply.status = 200
    /\ Len(store) >= 2
    /\ Len(reply.body) = Len(store)

----------------------------------------------------------------------------
(* Properties of the scorer *)

Positive(x) == x.k = "pos"

ValidInputs(data) == Positive(data.market_cap) /\ Positive(data.total_volume)

Scored == scorer.out.lo # None /\ scorer.out.hi # None

\* C22: for strictly positive inputs, a record with a greater market_cap
\* and the same total_volume, or a greater total_volume and the same
\* market_cap, gets a score that is a number and is not smaller.
C22_ScorerMonotone ==
    (Scored /\ ValidInputs(scorer.in.lo)) =>
        /\ scorer.out.lo.k = "fin"
        /\ scorer.out.hi.k = "fin"
        /\ scorer.out.lo.c <= scorer.out.hi.c

\* the greater record reaches the cap, the smaller one stays below it
C22_Witness ==
    /\ Scored
    /\ ValidInputs(scorer.in.lo)
    /\ scorer.out.lo.c < 100 * 100
    /\ scorer.out.hi.c = 100 * 100

\* 70 + 2 * (marketFactor + volumeFactor), before the cap
Unclamped(data) ==
    Plus(Num(70),
         MulBy(Plus(DivBy(MathLog(data.market_cap), 10),
                    DivBy(MathLog(data.total_volume), 10)), 2))

\* C23: for strictly positive inputs, the score is exactly 100 when the
\* unclamped value exceeds 100, and else the unclamped value rounded to
\* two decimals.
C23_ClampAndRound ==
    (scorer.out # None /\ scorer.out.lo # None /\ ValidInputs(scorer.in.lo)) =>
        IF Unclamped(scorer.in.lo).v > Num(100).v
        THEN scorer.out.lo = Score(100 * 100)
        ELSE scorer.out.lo = ToFixed2(Unclamped(scorer.in.lo))

C23_Witness ==
    /\ scorer.out # None
    /\ scorer.out.lo = Score(100 * 100)
    /\ ValidInputs(scorer.in.lo)
    /\ Unclamped(scorer.in.lo).v > Num(100).v

----------------------------------------------------------------------------
(* Further properties of the cycle and of the query *)

\* C24: a cycle calls the provider once: while it runs and after it has
\* ended, whether the call succeeded or failed, http.get has been called
\* exactly once for it.
C24_OneFetchPerCycle ==
    \A r \in Slots :
        /\ runs[r].fetches <= 1
        /\ (InFlight(runs[r]) \/ Ended(runs[r])) => runs[r].fetches = 1
        /\ runs[r].fetched \in {"ok", "failed"} => runs[r].pc # "fetching"

C24_Witness ==
    /\ \E r \in Slots :
          Ended(runs[r]) /\ runs[r].fetched = "failed" /\ runs[r].fetches = 1
    /\ \E r \in Slots :
          Ended(runs[r]) /\ runs[r].fetched = "ok" /\ runs[r].fetches = 1

\* C25: a query leaves the table as it was: a step that answers GET
\* /metrics, whatever the limit and the rows, changes no row.
C25_QueryLeavesStore ==
    [][reply'.status # 0 => store' = store]_vars

C25_Witness ==
    /\ reply.status = 200
    /\ Len(store) = 2
    /\ Len(reply.body) = 1
    /\ store[1] # store[2]

\* C26: the step in which a cycle's insert succeeds adds exactly one row,
\* the cycle's only one: its price, market cap and volume are those of the
\* record the cycle selected, its source is 'CoinGecko' and its score is
\* the scorer's result for that record.
C26_RowFromSelectedRecord ==
    [][\A r \in Slots :
          (runs[r].pc = "saving" /\ runs'[r].inserted > runs[r].inserted) =>
              /\ runs'[r].inserted = 1
              /\ Len(store') = Len(store) + 1
              /\ store'[Len(store')].priceUSD = runs[r].ethData.current_price
              /\ store'[Len(store')].marketCapUSD = runs[r].ethData.market_cap
              /\ store'[Len(store')].volume24hUSD = runs[r].ethData.total_volume
              /\ store'[Len(store')].source = "CoinGecko"
              /\ store'[Len(store')].deaiScore =
                    calculateDeaiScore(runs[r].ethData)]_vars

C26_Witness ==
    /\ \E r \in Slots :
          /\ runs[r].pc = "done"
          /\ runs[r].fetched = "ok"
          /\ runs[r].inserted = 1
    /\ Len(store) = 1
    /\ store[1].marketCapUSD = EthGood.market_cap
    /\ store[1].volume24hUSD = EthGood.total_volume
    /\ store[1].deaiScore = calculateDeaiScore(EthGood)

----------------------------------------------------------------------------
(* Properties of the dashboard *)

\* C27: when the table held rows as the dashboard's request was answered,
\* the record on the cards (the last element of the data received) carries
\* the greatest createdAt the table held at that moment.
C27_LatestMetricIsNewest ==
    (dash.dataLimit # 0 /\ dash.newestAtQuery # 0) =>
        /\ latestMetric(dash.data) # None
        /\ latestMetric(dash.data).createdAt = dash.newestAtQuery

\* the cards show the newest of several rows, and the table has grown
\* since
C27_Witness ==
    /\ Len(dash.data) = 2
    /\ dash.data[1].createdAt < latestMetric(dash.data).createdAt
    /\ latestMetric(dash.data).createdAt = dash.newestAtQuery
    /\ Len(store) = 3

\* C28: fetches of the dashboard do not overlap, so no response to an
\* older limit can arrive after a newer one: every fetch in flight is for
\* the selected limit; and once every fetch has settled, loading is false
\* and, unless the last fetch failed, data is the response to the selected
\* limit.
C28_DataMatchesSelectedLimit ==
    dash.mounted =>
        /\ dash.inflight \subseteq {dash.limit}
        /\ dash.inflight = {} =>
              /\ ~dash.loading
              /\ dash.error # "failed" => dash.dataLimit = dash.limit

\* another limit was selected after a load; its response is shown
C28_Witness ==
    /\ dash.mounted
    /\ dash.inflight = {}
    /\ ~dash.loading
    /\ dash.limit = 10
    /\ dash.dataLimit = 10
    /\ dash.data # <<>>
    /\ Len(store) = 3

====
